---- MODULE Spec2Model ----
(***************************************************************************)
(* Model of the G-code emitting pick-and-place machine of rpt2pnp          *)
(* (gcode-machine.cc): GCodeMachine::Init, PickPart, PlacePart, Dispense   *)
(* and Finish writing command blocks to standard output.                   *)
(*                                                                         *)
(* Numbers.  The program computes in float and double and prints with at  *)
(* most three decimals.  Configuration values (lengths in mm, times in ms) *)
(* are decimals given in thousandths (Milli = 1000 is 1.0) and angles are  *)
(* whole degrees; the program holds them as floats (Flt).  Arithmetic is   *)
(* IEEE 754 binary arithmetic on exact values (FAdd, FMul, DAdd, ...), and *)
(* printf prints the exact binary value of its argument (FmtNum).  Each    *)
(* printed field is recorded as its text and as the argument's value to    *)
(* the nearest thousandth.                                                 *)
(***************************************************************************)
EXTENDS Integers, Sequences, FiniteSets, TLC

VARIABLES
    init_ms_,   \* GCodeMachine::init_ms_  (ms; the decimal it was built from)
    area_ms_,   \* GCodeMachine::area_ms_  (ms per mm^2; likewise)
    config_,    \* GCodeMachine::config_ : NULL or a pointer to the caller's cfg
    cfg,        \* the caller's PnPConfig object (board, bed_level, tape registry)
    cursor,     \* per Tape: number of components already handed out
    out,        \* stdout: the sequence of printf emissions, each a block of lines
    err,        \* stderr: the sequence of diagnostics
    call,       \* the call that produced the current state
    phase,      \* the caller's position in the run
    ncalls      \* number of calls made so far

vars == <<init_ms_, area_ms_, config_, cfg, cursor, out, err, call, phase, ncalls>>

----------------------------------------------------------------------------
(* Bounds and number representation                                        *)

\* Longest call sequence explored (Init and Finish included).
MaxCalls == 4

\* Components on each reel at the start of the run.
TapeCount == 1

\* One unit (1.0) of a decimal given in thousandths.
Milli == 10 * 10 * 10

NULL == "NULL"

Abs(n) == IF n < 0 THEN -n ELSE n

----------------------------------------------------------------------------
(* Natural numbers of any size: sequences of limbs, least significant      *)
(* first, without leading zero limbs; <<>> is zero.                        *)

Base == 2^14

RECURSIVE Big(_)
Big(n) == IF n = 0 THEN <<>> ELSE <<n % Base>> \o Big(n \div Base)

RECURSIVE BigToInt(_)
BigToInt(a) == IF a = <<>> THEN 0 ELSE a[1] + Base * BigToInt(Tail(a))

RECURSIVE Trim(_)
Trim(a) ==
    IF a # <<>> /\ a[Len(a)] = 0 THEN Trim(SubSeq(a, 1, Len(a) - 1)) ELSE a

Limb(a, i) == IF i <= Len(a) THEN a[i] ELSE 0

RECURSIVE AddFrom(_, _, _, _)
AddFrom(a, b, i, c) ==
    IF i > Len(a) /\ i > Len(b)
    THEN IF c = 0 THEN <<>> ELSE <<c>>
    ELSE LET s == Limb(a, i) + Limb(b, i) + c
         IN  <<s % Base>> \o AddFrom(a, b, i + 1, s \div Base)

BigAdd(a, b) == AddFrom(a, b, 1, 0)

RECURSIVE SubFrom(_, _, _, _)
SubFrom(a, b, i, c) ==
    IF i > Len(a) THEN <<>>
    ELSE LET s == a[i] - Limb(b, i) - c
         IN  IF s < 0 THEN <<s + Base>> \o SubFrom(a, b, i + 1, 1)
                      ELSE <<s>> \o SubFrom(a, b, i + 1, 0)

\* a - b for a >= b
BigSub(a, b) == Trim(SubFrom(a, b, 1, 0))

RECURSIVE CmpAt(_, _, _)
CmpAt(a, b, i) ==
    IF i = 0 THEN 0
    ELSE IF a[i] > b[i] THEN 1
    ELSE IF a[i] < b[i] THEN -1
    ELSE CmpAt(a, b, i - 1)

\* -1, 0 or 1 as a is less than, equal to or greater than b
BigCmp(a, b) ==
    IF Len(a) > Len(b) THEN 1
    ELSE IF Len(a) < Len(b) THEN -1
    ELSE CmpAt(a, b, Len(a))

RECURSIVE MulFrom(_, _, _, _)
MulFrom(a, c, i, carry) ==
    IF i > Len(a) THEN Big(carry)
    ELSE LET s == a[i] * c + carry
         IN  <<s % Base>> \o MulFrom(a, c, i + 1, s \div Base)

\* a * c for 0 <= c < 2^16
BigMulSmall(a, c) == IF c = 0 THEN <<>> ELSE MulFrom(a, c, 1, 0)

RECURSIVE BigMul(_, _)
BigMul(a, b) ==
    IF a = <<>> \/ b = <<>> THEN <<>>
    ELSE LET r == BigMul(a, Tail(b))
         IN  BigAdd(BigMulSmall(a, b[1]), IF r = <<>> THEN r ELSE <<0>> \o r)

RECURSIVE DivAt(_, _, _, _)
DivAt(a, d, i, r) ==
    IF i = 0 THEN [q |-> <<>>, r |-> r]
    ELSE LET cur  == r * Base + a[i]
             rest == DivAt(a, d, i - 1, cur % d)
         IN  [q |-> Append(rest.q, cur \div d), r |-> rest.r]

\* quotient and remainder of a by d, 0 < d < 2^17
BigDivSmall(a, d) ==
    LET x == DivAt(a, d, Len(a), 0) IN [q |-> Trim(x.q), r |-> x.r]

\* a * 2^n
Shl(a, n) ==
    IF a = <<>> THEN a
    ELSE [i \in 1 .. (n \div 14) |-> 0] \o BigMulSmall(a, 2^(n % 14))

\* a \div 2^n
Shr(a, n) ==
    IF n \div 14 >= Len(a) THEN <<>>
    ELSE BigDivSmall(SubSeq(a, (n \div 14) + 1, Len(a)), 2^(n % 14)).q

RECURSIVE IntBits(_)
IntBits(n) == IF n = 0 THEN 0 ELSE 1 + IntBits(n \div 2)

\* number of significant bits of a
BitLen(a) == IF a = <<>> THEN 0 ELSE 14 * (Len(a) - 1) + IntBits(a[Len(a)])

\* a / 2^sh (sh >= 1) rounded to the nearest integer, a tie to the even one
RoundNearestEven(a, sh) ==
    LET q    == Shr(a, sh)
        rem  == BigSub(a, Shl(q, sh))
        c    == BigCmp(rem, Shl(<<1>>, sh - 1))
        up   == c > 0 \/ (c = 0 /\ q # <<>> /\ q[1] % 2 = 1)
    IN  IF up THEN BigAdd(q, <<1>>) ELSE q

----------------------------------------------------------------------------
(* Binary floating point.  A value is (-1)^neg * m * 2^e with m a natural  *)
(* number; a float has at most 24 significant bits, a double at most 53.   *)
(* Every operation is the exact result rounded to nearest, ties to even,   *)
(* as IEEE 754 arithmetic does.  Exponent range (overflow, subnormals),    *)
(* infinities and NaN are not modelled.                                    *)

FLT_MANT_DIG == 24

DBL_MANT_DIG == 53

Dy(neg, m, e) == [neg |-> neg, m |-> m, e |-> e]

\* the value of an int
IntVal(n) == Dy(n < 0, Big(Abs(n)), 0)

\* x rounded to a significand of the given number of bits
Round(x, bits) ==
    LET l == BitLen(x.m)
    IN  IF l <= bits THEN x
        ELSE Dy(x.neg, RoundNearestEven(x.m, l - bits), x.e + (l - bits))

\* exact x / d (d > 0 an integer below 2^17) rounded to the given bits
DivRound(x, d, bits) ==
    LET s  == bits + 3 + IntBits(d)
        dv == BigDivSmall(Shl(x.m, s), d)
        q  == BigAdd(Shl(dv.q, 1), IF dv.r = 0 THEN <<>> ELSE <<1>>)
    IN  IF x.m = <<>> THEN x ELSE Round(Dy(x.neg, q, x.e - s - 1), bits)

\* the decimal n / d (d > 0 below 2^17) as written in a source or
\* configuration file, converted to a float or double of the given bits
FromDec(n, d, bits) == DivRound(IntVal(n), d, bits)

\* the float a value given in thousandths is stored as
Flt(v) == FromDec(v, Milli, FLT_MANT_DIG)

DyNeg(x) == Dy(~x.neg, x.m, x.e)

\* exact sum
DyAdd(x, y) ==
    LET e == IF x.e <= y.e THEN x.e ELSE y.e
        a == Shl(x.m, x.e - e)
        b == Shl(y.m, y.e - e)
        c == BigCmp(a, b)
    IN  IF x.neg = y.neg THEN Dy(x.neg, BigAdd(a, b), e)
        ELSE IF c = 0 THEN Dy(FALSE, <<>>, 0)
        ELSE IF c > 0 THEN Dy(x.neg, BigSub(a, b), e)
        ELSE Dy(y.neg, BigSub(b, a), e)

\* exact product
DyMul(x, y) == Dy(x.neg # y.neg, BigMul(x.m, y.m), x.e + y.e)

\* x < y as C compares them (-0 equals +0)
DyLess(x, y) ==
    LET d == DyAdd(x, DyNeg(y)) IN d.m # <<>> /\ d.neg

\* float operators
FAdd(x, y) == Round(DyAdd(x, y), FLT_MANT_DIG)

FSub(x, y) == Round(DyAdd(x, DyNeg(y)), FLT_MANT_DIG)

FMul(x, y) == Round(DyMul(x, y), FLT_MANT_DIG)

\* double operators
DAdd(x, y) == Round(DyAdd(x, y), DBL_MANT_DIG)

DSub(x, y) == Round(DyAdd(x, DyNeg(y)), DBL_MANT_DIG)

DMul(x, y) == Round(DyMul(x, y), DBL_MANT_DIG)

----------------------------------------------------------------------------
(* printf                                                                  *)

\* digits after the point of a conversion
Precision(conv) ==
    CASE conv \in {"%.3f", "%-6.3f"} -> 3
      [] conv \in {"%.2f", "%-6.2f"} -> 2
      [] conv \in {"%.1f", "%-5.1f"} -> 1

\* minimum field width of a conversion; the field is left-justified
Width(conv) ==
    CASE conv \in {"%-6.3f", "%-6.2f"} -> 6
      [] conv = "%-5.1f" -> 5
      [] OTHER -> 0

RECURSIVE Pow10(_)
Pow10(k) == IF k = 0 THEN 1 ELSE 10 * Pow10(k - 1)

\* |x| * 10^p rounded to the nearest integer: printf rounds the exact binary
\* value, and a value exactly half way goes to the even digit
RoundDec(x, p) ==
    LET n == BigMulSmall(x.m, Pow10(p))
    IN  IF x.e >= 0 THEN Shl(n, x.e) ELSE RoundNearestEven(n, -x.e)

\* the value of a double argument to the nearest thousandth
Thousandths(x) ==
    LET t == BigToInt(RoundDec(x, 3)) IN IF x.neg THEN -t ELSE t

Digit(i) == <<"0", "1", "2", "3", "4", "5", "6", "7", "8", "9">>[i + 1]

\* the decimal digits of a, at least one
RECURSIVE BigStr(_)
BigStr(a) ==
    LET dv == BigDivSmall(a, 10)
    IN  (IF dv.q = <<>> THEN "" ELSE BigStr(dv.q)) \o Digit(dv.r)

\* the last p decimal digits of n
RECURSIVE Digits(_, _)
Digits(n, p) == IF p = 0 THEN "" ELSE Digits(n \div 10, p - 1) \o Digit(n % 10)

RECURSIVE NumDigits(_)
NumDigits(a) ==
    LET q == BigDivSmall(a, 10).q IN IF q = <<>> THEN 1 ELSE 1 + NumDigits(q)

RECURSIVE Spaces(_)
Spaces(k) == IF k <= 0 THEN "" ELSE " " \o Spaces(k - 1)

\* printf("%d", n)
IntStr(n) == (IF n < 0 THEN "-" ELSE "") \o BigStr(Big(Abs(n)))

\* printf of one double argument x under a %[-w].pf conversion: sign (also
\* of a negative value that rounds to zero), integer digits, point, p
\* digits, padded on the right with spaces to the field width
FmtNum(x, conv) ==
    LET p   == Precision(conv)
        dv  == BigDivSmall(RoundDec(x, p), Pow10(p))
        len == (IF x.neg THEN 1 ELSE 0) + NumDigits(dv.q) + 1 + p
    IN  (IF x.neg THEN "-" ELSE "") \o BigStr(dv.q) \o "." \o Digits(dv.r, p)
            \o Spaces(Width(conv) - len)

\* printf of the float stored for v thousandths
Fmt(v, conv) == FmtNum(Flt(v), conv)

\* One output line of a template: the command word, the string argument of
\* the line (if any), and for each numeric argument handed to printf its
\* value to the nearest thousandth (an int as it is) and the text printed
\* for it.
Line(cmd, name, nums, convs) ==
    [cmd  |-> cmd,
     name |-> name,
     args |-> [i \in DOMAIN nums |->
                  IF convs[i] = "%d" THEN nums[i] ELSE Thousandths(nums[i])],
     text |-> [i \in DOMAIN nums |->
                  IF convs[i] = "%d" THEN IntStr(nums[i])
                  ELSE FmtNum(nums[i], convs[i])]]

Blank == Line("", "", <<>>, <<>>)

----------------------------------------------------------------------------
(* Compile-time constants of gcode-machine.cc                              *)

Z_HOVERING == 10

\* the double 0.0
TAPE_THICK == Dy(FALSE, <<>>, 0)

\* (50.34965 / 360): a double division
ANGLE_FACTOR ==
    DivRound(FromDec(5034965, 10 * 10 * Milli, DBL_MANT_DIG), 360, DBL_MANT_DIG)

TO_TAPE_SPEED == 1000

TO_BOARD_SPEED == 100

\* the double 0.3
Z_DISPENSING_ABOVE == FromDec(3, 10, DBL_MANT_DIG)

Z_HOVER_ABOVE == 2

Z_SEPARATE_DROPLET_ABOVE == 5

\* C fmod(x, y) for whole numbers x and y > 0: the remainder of the division
\* truncated towards zero, a double with the sign of x (-0.0 for a negative
\* multiple of y).
fmod(x, y) == Dy(x < 0, Big(Abs(x) % y), 0)

\* the whole number a double holds
Degrees(x) ==
    LET n == BigToInt(Shl(x.m, x.e)) IN IF x.neg THEN -n ELSE n

\* ANGLE_FACTOR * a: a double product
AngleScaled(a) == DMul(ANGLE_FACTOR, a)

----------------------------------------------------------------------------
(* The collaborators: Tape, Part, Pad, PnPConfig                           *)

Tapes == {"T1", "T2"}

\* A reel: position of its first component, spacing, number of components,
\* height above the bed and reel angle.
TapeDef(t) ==
    CASE t = "T1" -> [x0 |-> 100 * Milli, y0 |-> 10 * Milli, dx |-> 4 * Milli,
                      dy |-> 0, count |-> TapeCount,
                      height |-> 5 * Milli, angle |-> 350]
      [] t = "T2" -> [x0 |-> 100 * Milli, y0 |-> 30 * Milli, dx |-> 0,
                      dy |-> 2 * Milli, count |-> TapeCount,
                      height |-> 12 * Milli + 250, angle |-> -90]

height(t) == TapeDef(t).height

angle(t) == TapeDef(t).angle

\* Tape::GetPos: fails on an exhausted reel and changes nothing; otherwise
\* reports the next supply position and advances the reel's cursor by one.
GetPos(t) ==
    LET d == TapeDef(t)
        c == cursor[t]
    IN  IF c >= d.count
        THEN [ok |-> FALSE, px |-> 0, py |-> 0, cursor |-> cursor]
        ELSE [ok |-> TRUE,
              px |-> d.x0 + c * d.dx,
              py |-> d.y0 + c * d.dy,
              cursor |-> [cursor EXCEPT ![t] = c + 1]]

Parts == {"P1", "P2"}

PartDef(p) ==
    CASE p = "P1" -> [component_name |-> "R1", footprint |-> "0805",
                      value |-> "10k",
                      pos |-> [x |-> 10 * Milli, y |-> 20 * Milli],
                      angle |-> 30]
      [] p = "P2" -> [component_name |-> "C7", footprint |-> "0603",
                      value |-> "100n",
                      pos |-> [x |-> 15 * Milli + 500, y |-> 2 * Milli + 540],
                      angle |-> -90]

Pads == {"1", "2"}

PadDef(d) ==
    CASE d = "1" -> [name |-> "1",
                     pos |-> [x |-> -Milli, y |-> 0],
                     size |-> [w |-> Milli + 200, h |-> Milli + 400]]
      [] d = "2" -> [name |-> "2",
                     pos |-> [x |-> 2 * Milli, y |-> Milli \div 2],
                     size |-> [w |-> Milli \div 2, h |-> Milli \div 4]]

\* Board geometries the caller may configure (top and bed_level are Z
\* heights; nothing in the program requires top >= bed_level).
Boards ==
    { [top |-> 6 * Milli, bed_level |-> 5 * Milli,
       origin |-> [x |-> 50 * Milli, y |-> 60 * Milli]],
      [top |-> 6 * Milli + 15, bed_level |-> 5 * Milli,
       origin |-> [x |-> 0, y |-> 0]],
      [top |-> Milli + 125, bed_level |-> 12 * Milli,
       origin |-> [x |-> 0, y |-> 0]] }

\* Tape registries: component key (footprint@value) -> Tape.
NoTapes == [k \in {} |-> "T1"]

OneTape == [k \in {"0805@10k"} |-> "T1"]

TwoTapes ==
    [k \in {"0805@10k", "0603@100n"} |-> IF k = "0805@10k" THEN "T1" ELSE "T2"]

Registries == {NoTapes, OneTape, TwoTapes}

PnPConfig(b, r) ==
    [board |-> [top |-> b.top, origin |-> b.origin],
     bed_level |-> b.bed_level,
     tape_for_component |-> r]

\* The configurations the caller may have built.
Configs ==
    { PnPConfig(b, r) : b \in Boards, r \in Registries }

Comments == {"rpt2pnp run"}

Dimensions == {[w |-> 100 * Milli, h |-> 80 * Milli]}

\* Constructor arguments (init_ms, area_ms) the machine may be built with.
DispenseTimings == {[init_ms |-> 50 * Milli, area_ms |-> 23 * Milli + 125]}

----------------------------------------------------------------------------
(* The output templates.  A raw string that starts with a newline yields a  *)
(* leading empty line; each following source line is one output line.      *)
(* Numeric parameters are the values handed to printf.                     *)

\* param: moving needle up.
gcode_preamble(z) ==
    << Blank,
       Line("G28 X0 Y0", "", <<>>, <<>>),
       Line("G28 Z0", "", <<>>, <<>>),
       Line("G21", "", <<>>, <<>>),
       Line("T1", "", <<>>, <<>>),
       Line("M302", "", <<>>, <<>>),
       Line("G90", "", <<>>, <<>>),
       Line("G92 E0", "", <<>>, <<>>),
       Blank,
       Line("G1 Z E0", "", <<z>>, <<"%.1f">>) >>

\* param: name, move-speed, x, y, zup, a, zdown, zup
gcode_pick(name, speed, x, y, zup, a, zdown, zup2) ==
    << Blank,
       Line(";; -- Pick", name, <<>>, <<>>),
       Line("G0 F X Y Z E", "", <<speed, x, y, zup, a>>,
            <<"%d", "%.3f", "%.3f", "%.3f", "%.3f">>),
       Line("G1 Z F4000", "", <<zdown>>, <<"%-6.2f">>),
       Line("G4", "", <<>>, <<>>),
       Line("M42 P6 S255", "", <<>>, <<>>),
       Line("G1 Z", "", <<zup2>>, <<"%-6.3f">>) >>

\* param: name, place-speed, x, y, zup, a, zdown, zup
gcode_place(name, speed, x, y, zup, a, zdown, zup2) ==
    << Blank,
       Line(";; -- Place", name, <<>>, <<>>),
       Line("G0 F X Y Z E", "", <<speed, x, y, zup, a>>,
            <<"%d", "%.3f", "%.3f", "%.3f", "%.3f">>),
       Line("G1 Z F4000", "", <<zdown>>, <<"%-6.3f">>),
       Line("G4", "", <<>>, <<>>),
       Line("M42 P6 S0", "", <<>>, <<>>),
       Line("G4", "", <<>>, <<>>),
       Line("M42 P8 S255", "", <<>>, <<>>),
       Line("G4 P40", "", <<>>, <<>>),
       Line("M42 P8 S0", "", <<>>, <<>>),
       Line("G1 Z", "", <<zup2>>, <<"%-6.2f">>) >>

\* param: component-name, pad-name, x, y, hover-z
\* (the last line is left unterminated; gcode_dispense_paste ends it)
gcode_dispense_move(component, pad, x, y, z) ==
    << Blank,
       Line(";; -- component", component \o ", pad " \o pad, <<>>, <<>>),
       Line("G0 X Y Z", "", <<x, y, z>>, <<"%.3f", "%.3f", "%.3f">>) >>

\* param: z-dispense-height, wait-time-ms, area, z-separate-droplet
gcode_dispense_paste(zdown, wait, area, zup) ==
    << Line("G1 Z", "", <<zdown>>, <<"%.2f">>),
       Line("M106", "", <<>>, <<>>),
       Line("G4 P", "", <<wait, area>>, <<"%-5.1f", "%.2f">>),
       Line("M107", "", <<>>, <<>>),
       Line("G1 Z", "", <<zup>>, <<"%.2f">>) >>

\* Variant: the shutdown also homes Z.
gcode_finish_HomeZ ==
    << Blank,
       Line("G28 X0 Y0", "", <<>>, <<>>),
       Line("G28 Z0", "", <<>>, <<>>),
       Line("M84", "", <<>>, <<>>) >>

gcode_finish ==
    << Blank,
       Line("G28 X0 Y0", "", <<>>, <<>>),
       Line("M84", "", <<>>, <<>>) >>

\* One printf call: the template used and the lines it wrote.
Emit(tmpl, lines) == [tmpl |-> tmpl, lines |-> lines]

----------------------------------------------------------------------------
(* Derived quantities                                                      *)

\* cosf and sinf (the float overloads <math.h> gives a C++ program) of the
\* float angle = 2 * M_PI * a / 360.0, for a a multiple of 30 degrees from
\* -180 to 360: the float results as <<signed significand, exponent>>.
CosTable ==
    << <<-1, 0>>, <<-14529495, -24>>, <<-8388609, -24>>, <<-6151831, -47>>,
       <<16777215, -25>>, <<14529495, -24>>, <<1, 0>>, <<14529495, -24>>,
       <<16777215, -25>>, <<-6151831, -47>>, <<-8388609, -24>>,
       <<-14529495, -24>>, <<-1, 0>>, <<-14529495, -24>>, <<-16777213, -25>>,
       <<6713111, -49>>, <<16777213, -25>>, <<7264747, -23>>, <<1, 0>> >>

SinTable ==
    << <<6151831, -46>>, <<-8388609, -24>>, <<-14529495, -24>>, <<-1, 0>>,
       <<-1816187, -21>>, <<-1, -1>>, <<0, 0>>, <<1, -1>>,
       <<1816187, -21>>, <<1, 0>>, <<14529495, -24>>, <<8388609, -24>>,
       <<-6151831, -46>>, <<-16777215, -25>>, <<-1816187, -21>>, <<-1, 0>>,
       <<-1816187, -21>>, <<-8388611, -24>>, <<6151831, -45>> >>

TableValue(p) == Dy(p[1] < 0, Big(Abs(p[1])), p[2])

cos(a) == TableValue(CosTable[((a + 180) \div 30) + 1])

sin(a) == TableValue(SinTable[((a + 180) \div 30) + 1])

\* config_->board.top - config_->bed_level, for config_ pointing to c
board_thick(c) == FSub(Flt(c.board.top), Flt(c.bed_level))

\* Variant: the travel height is taken relative to the board only.
travel_height_NoTape(c, tape) == FAdd(board_thick(c), IntVal(Z_HOVERING))

travel_height(c, tape) ==
    FAdd(FAdd(Flt(height(tape)), board_thick(c)), IntVal(Z_HOVERING))

print_name(part) ==
    PartDef(part).component_name \o " (" \o PartDef(part).footprint
        \o "@" \o PartDef(part).value \o ")"

\* fmod(tape->angle(), 360.0): the pickup angle before scaling.
PickupAngle(tape) == fmod(angle(tape), 360)

\* fmod(part.angle - tape->angle() + 360, 360.0): the relative placement
\* angle before scaling.
PlaceAngle(part, tape) == fmod(PartDef(part).angle - angle(tape) + 360, 360)

\* std::max(a, b)
Max(a, b) == IF DyLess(a, b) THEN b ELSE a

\* The loop of Init over config_->tape_for_component, started at acc.
RECURSIVE HighestOver(_, _, _)
HighestOver(reg, keys, acc) ==
    IF keys = {} THEN acc
    ELSE LET k == CHOOSE k \in keys : TRUE
         IN  HighestOver(reg, keys \ {k}, Max(acc, Flt(height(reg[k]))))

\* Variant: the loop over the registry is left out.
highest_tape_BoardOnly(c) == Flt(c.board.top)

highest_tape(c) ==
    HighestOver(c.tape_for_component, DOMAIN c.tape_for_component,
                Flt(c.board.top))

\* The diagnostic and the setup block Init prints for configuration c.
InitBlock(c) ==
    [note  |-> "Board-thickness = " \o FmtNum(board_thick(c), "%.1f") \o "mm",
     block |-> Emit("gcode_preamble",
                    gcode_preamble(FAdd(highest_tape(c), IntVal(10))))]

\* The block PickPart prints for a part taken from tape at (px, py).
PickBlock(c, part, tape, px, py) ==
    LET travel == travel_height(c, tape)
        h      == Flt(height(tape))
    IN  Emit("gcode_pick",
             gcode_pick(print_name(part),
                        60 * TO_TAPE_SPEED,
                        Flt(px), Flt(py),
                        FAdd(h, IntVal(Z_HOVERING)),
                        AngleScaled(PickupAngle(tape)),
                        h,
                        travel))

\* The block PlacePart prints.
PlaceBlock(c, part, tape) ==
    LET travel == travel_height(c, tape)
    IN  Emit("gcode_place",
             gcode_place(print_name(part),
                         60 * TO_BOARD_SPEED,
                         FAdd(Flt(PartDef(part).pos.x), Flt(c.board.origin.x)),
                         FAdd(Flt(PartDef(part).pos.y), Flt(c.board.origin.y)),
                         travel,
                         AngleScaled(PlaceAngle(part, tape)),
                         DSub(FAdd(Flt(height(tape)), board_thick(c)),
                              TAPE_THICK),
                         travel))

\* The two blocks Dispense prints, for a machine built with timing tm.
DispenseBlocks(c, tm, part, pad) ==
    LET a      == PartDef(part).angle
        part_x == FAdd(Flt(c.board.origin.x), Flt(PartDef(part).pos.x))
        part_y == FAdd(Flt(c.board.origin.y), Flt(PartDef(part).pos.y))
        area   == FMul(Flt(PadDef(pad).size.w), Flt(PadDef(pad).size.h))
        pad_x  == Flt(PadDef(pad).pos.x)
        pad_y  == Flt(PadDef(pad).pos.y)
        top    == Flt(c.board.top)
        x      == FSub(FAdd(part_x, FMul(pad_x, cos(a))), FMul(pad_y, sin(a)))
        y      == FAdd(FAdd(part_y, FMul(pad_x, sin(a))), FMul(pad_y, cos(a)))
    IN  << Emit("gcode_dispense_move",
                gcode_dispense_move(PartDef(part).component_name,
                                    PadDef(pad).name,
                                    x, y,
                                    FAdd(top, IntVal(Z_HOVER_ABOVE)))),
           Emit("gcode_dispense_paste",
                gcode_dispense_paste(
                    DAdd(top, Z_DISPENSING_ABOVE),
                    FAdd(Flt(tm.init_ms), FMul(area, Flt(tm.area_ms))),
                    area,
                    FAdd(top, IntVal(Z_SEPARATE_DROPLET_ABOVE)))) >>

\* The supply positions of a reel.
Positions(t) ==
    { <<TapeDef(t).x0 + c * TapeDef(t).dx, TapeDef(t).y0 + c * TapeDef(t).dy>> :
        c \in 0 .. TapeDef(t).count - 1 }

\* What a call prints is a function of its inputs alone; it is tabulated
\* over the inputs the caller can supply.
InitBlocks == [c \in Configs |-> InitBlock(c)]

PickBlocks ==
    [c \in Configs, part \in Parts, tape \in Tapes,
     pos \in UNION { Positions(t) : t \in Tapes } |->
        PickBlock(c, part, tape, pos[1], pos[2])]

PlaceBlocks ==
    [c \in Configs, part \in Parts, tape \in Tapes |->
        PlaceBlock(c, part, tape)]

DispenseBlocksOf ==
    [c \in Configs, tm \in DispenseTimings, part \in Parts, pad \in Pads |->
        DispenseBlocks(c, tm, part, pad)]

----------------------------------------------------------------------------
(* The machine                                                             *)
(*                                                                         *)
(* The caller follows the run protocol: Init first; PickPart, PlacePart    *)
(* and Dispense only after a successful Init (they dereference config_)    *)
(* and before Finish; a failed Init aborts the run.  Finish reads nothing   *)
(* and may come at any point; nothing is called after it.                  *)

\* The record of a call: its operation, arguments and return value, and the
\* number of printf emissions it made on stdout.
Called(op, config, part, tape, pad, ret, blocks) ==
    [op |-> op, config |-> config, part |-> part, tape |-> tape,
     pad |-> pad, ret |-> ret, blocks |-> blocks]

\* State after GCodeMachine::GCodeMachine(init_ms, area_ms); the caller has
\* built its configuration and its reels are full.
Init ==
    /\ \E t \in DispenseTimings :
          /\ init_ms_ = t.init_ms
          /\ area_ms_ = t.area_ms
    /\ config_ = NULL
    /\ cfg \in Configs
    /\ cursor = [t \in Tapes |-> 0]
    /\ out = <<>>
    /\ err = <<>>
    /\ call = Called("GCodeMachine", NULL, NULL, NULL, NULL, TRUE, 0)
    /\ phase = "uninit"
    /\ ncalls = 0

\* Variant: the run comment is printed before the configuration is checked.
MachineInit_CommentFirst(config, init_comment, dim) ==
    /\ phase = "uninit"
    /\ ncalls < MaxCalls
    /\ config_' = config
    /\ IF config = NULL
       THEN /\ err' = Append(err, "Need configuration")
            /\ out' = Append(out, Emit("comment",
                                       <<Line(";", init_comment, <<>>, <<>>)>>))
            /\ phase' = "aborted"
            /\ call' = Called("Init", config, NULL, NULL, NULL, FALSE,
                              Len(out') - Len(out))
       ELSE /\ err' = Append(err, InitBlocks[cfg].note)
            /\ out' = out \o << Emit("comment",
                                     <<Line(";", init_comment, <<>>, <<>>)>>),
                                InitBlocks[cfg].block >>
            /\ phase' = "operating"
            /\ call' = Called("Init", config, NULL, NULL, NULL, TRUE,
                              Len(out') - Len(out))
    /\ ncalls' = ncalls + 1
    /\ UNCHANGED <<init_ms_, area_ms_, cfg, cursor>>

\* bool GCodeMachine::Init(config, init_comment, dim); config is NULL or
\* points to the caller's cfg.
MachineInit(config, init_comment, dim) ==
    /\ phase = "uninit"
    /\ ncalls < MaxCalls
    /\ config_' = config
    /\ IF config = NULL
       THEN /\ err' = Append(err, "Need configuration")
            /\ out' = out
            /\ phase' = "aborted"
            /\ call' = Called("Init", config, NULL, NULL, NULL, FALSE,
                         Len(out') - Len(out))
       ELSE /\ err' = Append(err, InitBlocks[cfg].note)
            /\ out' = out \o << Emit("comment",
                                     <<Line(";", init_comment, <<>>, <<>>)>>),
                                InitBlocks[cfg].block >>
            /\ phase' = "operating"
            /\ call' = Called("Init", config, NULL, NULL, NULL, TRUE,
                         Len(out') - Len(out))
    /\ ncalls' = ncalls + 1
    /\ UNCHANGED <<init_ms_, area_ms_, cfg, cursor>>

\* Variant: the return after the out-of-components diagnostic is missing.
PickPart_NoReturn(part, tape) ==
    /\ phase = "operating"
    /\ ncalls < MaxCalls
    /\ IF tape = NULL
       THEN UNCHANGED <<out, err, cursor>>
       ELSE LET g == GetPos(tape)
            IN  /\ err' = IF g.ok THEN err
                          ELSE Append(err, "We are out of components for "
                                           \o PartDef(part).footprint \o " "
                                           \o PartDef(part).value)
                /\ cursor' = g.cursor
                /\ out' = Append(out, PickBlock(cfg, part, tape, g.px, g.py))
    /\ call' = Called("PickPart", NULL, part, tape, NULL, TRUE,
                      Len(out') - Len(out))
    /\ ncalls' = ncalls + 1
    /\ UNCHANGED <<init_ms_, area_ms_, config_, cfg, phase>>

\* Variant: the position is read without taking the component off the reel.
PickPart_NoAdvance(part, tape) ==
    /\ phase = "operating"
    /\ ncalls < MaxCalls
    /\ IF tape = NULL
       THEN UNCHANGED <<out, err, cursor>>
       ELSE LET g == GetPos(tape)
            IN  IF ~g.ok
                THEN /\ err' = Append(err, "We are out of components for "
                                            \o PartDef(part).footprint \o " "
                                            \o PartDef(part).value)
                     /\ cursor' = cursor
                     /\ out' = out
                ELSE /\ cursor' = cursor
                     /\ out' = Append(out, PickBlocks[cfg, part, tape,
                                                      <<g.px, g.py>>])
                     /\ err' = err
    /\ call' = Called("PickPart", NULL, part, tape, NULL, TRUE,
                      Len(out') - Len(out))
    /\ ncalls' = ncalls + 1
    /\ UNCHANGED <<init_ms_, area_ms_, config_, cfg, phase>>

\* void GCodeMachine::PickPart(part, tape); tape is NULL or a reel.
PickPart(part, tape) ==
    /\ phase = "operating"
    /\ ncalls < MaxCalls
    /\ IF tape = NULL
       THEN UNCHANGED <<out, err, cursor>>
       ELSE LET g == GetPos(tape)
            IN  IF ~g.ok
                THEN /\ err' = Append(err, "We are out of components for "
                                            \o PartDef(part).footprint \o " "
                                            \o PartDef(part).value)
                     /\ cursor' = g.cursor
                     /\ out' = out
                ELSE /\ cursor' = g.cursor
                     /\ out' = Append(out, PickBlocks[cfg, part, tape,
                                                      <<g.px, g.py>>])
                     /\ err' = err
    /\ call' = Called("PickPart", NULL, part, tape, NULL, TRUE,
                         Len(out') - Len(out))
    /\ ncalls' = ncalls + 1
    /\ UNCHANGED <<init_ms_, area_ms_, config_, cfg, phase>>

\* Variant: PlacePart takes the next position off the reel as PickPart does.
PlacePart_Advances(part, tape) ==
    /\ phase = "operating"
    /\ ncalls < MaxCalls
    /\ IF tape = NULL
       THEN UNCHANGED <<out, cursor>>
       ELSE /\ out' = Append(out, PlaceBlocks[cfg, part, tape])
            /\ cursor' = GetPos(tape).cursor
    /\ call' = Called("PlacePart", NULL, part, tape, NULL, TRUE,
                      Len(out') - Len(out))
    /\ ncalls' = ncalls + 1
    /\ UNCHANGED <<init_ms_, area_ms_, config_, cfg, err, phase>>

\* Variant: PlacePart places nothing from a reel that has run out.
PlacePart_SkipsExhausted(part, tape) ==
    /\ phase = "operating"
    /\ ncalls < MaxCalls
    /\ IF tape = NULL \/ cursor[tape] >= TapeDef(tape).count
       THEN out' = out
       ELSE out' = Append(out, PlaceBlocks[cfg, part, tape])
    /\ call' = Called("PlacePart", NULL, part, tape, NULL, TRUE,
                      Len(out') - Len(out))
    /\ ncalls' = ncalls + 1
    /\ UNCHANGED <<init_ms_, area_ms_, config_, cfg, cursor, err, phase>>

\* void GCodeMachine::PlacePart(part, tape)
PlacePart(part, tape) ==
    /\ phase = "operating"
    /\ ncalls < MaxCalls
    /\ IF tape = NULL
       THEN out' = out
       ELSE out' = Append(out, PlaceBlocks[cfg, part, tape])
    /\ call' = Called("PlacePart", NULL, part, tape, NULL, TRUE,
                         Len(out') - Len(out))
    /\ ncalls' = ncalls + 1
    /\ UNCHANGED <<init_ms_, area_ms_, config_, cfg, cursor, err, phase>>

\* void GCodeMachine::Dispense(part, pad)
Dispense(part, pad) ==
    /\ phase = "operating"
    /\ ncalls < MaxCalls
    /\ out' = out \o DispenseBlocksOf[cfg, [init_ms |-> init_ms_,
                                             area_ms |-> area_ms_],
                                       part, pad]
    /\ call' = Called("Dispense", NULL, part, NULL, pad, TRUE,
                         Len(out') - Len(out))
    /\ ncalls' = ncalls + 1
    /\ UNCHANGED <<init_ms_, area_ms_, config_, cfg, cursor, err, phase>>

\* void GCodeMachine::Finish(); it reads no field of the machine, so the
\* caller may reach it from any point of the run.
Finish ==
    /\ phase # "finished"
    /\ ncalls < MaxCalls
    /\ out' = Append(out, Emit("gcode_finish", gcode_finish))
    /\ phase' = "finished"
    /\ call' = Called("Finish", NULL, NULL, NULL, NULL, TRUE,
                         Len(out') - Len(out))
    /\ ncalls' = ncalls + 1
    /\ UNCHANGED <<init_ms_, area_ms_, config_, cfg, cursor, err>>

Next ==
    \/ \E c \in {NULL, "cfg"}, m \in Comments, d \in Dimensions :
          MachineInit(c, m, d)
    \/ \E p \in Parts, t \in Tapes \cup {NULL} : PickPart(p, t)
    \/ \E p \in Parts, t \in Tapes \cup {NULL} : PlacePart(p, t)
    \/ \E p \in Parts, d \in Pads : Dispense(p, d)
    \/ Finish

Spec == Init /\ [][Next]_vars

----------------------------------------------------------------------------
(* Vocabulary of the properties                                            *)

\* The emissions the step under consideration appended to stdout.
NewOut == SubSeq(out', Len(out) + 1, Len(out'))

\* The emission a call left last on stdout.
Last == out[Len(out)]

\* Comment-only and empty lines carry no command for the controller.
CommentWords == {"", ";", ";; -- Pick", ";; -- Place", ";; -- component"}

IsCommand(l) == l.cmd \notin CommentWords

\* The command words of an emission, comments and empty lines left out.
RECURSIVE Commands(_)
Commands(lines) ==
    IF lines = <<>> THEN <<>>
    ELSE IF IsCommand(Head(lines))
         THEN <<Head(lines).cmd>> \o Commands(Tail(lines))
         ELSE Commands(Tail(lines))

\* Everything a later call reads or extends, apart from stderr.
Machine == <<init_ms_, area_ms_, config_, cfg, cursor, out, phase>>

\* The pick blocks on stdout that move to a supply position of reel t.
PickBlocksOf(t) ==
    { i \in DOMAIN out :
        /\ out[i].tmpl = "gcode_pick"
        /\ <<out[i].lines[3].args[2], out[i].lines[3].args[3]>> \in Positions(t) }

\* The blocks of a template on stdout that are headed by the given name.
BlocksNamed(tmpl, name) ==
    { i \in DOMAIN out : out[i].tmpl = tmpl /\ out[i].lines[2].name = name }

\* x normalized into [0, 360).
Normalize(x) == x % 360

----------------------------------------------------------------------------
(* C1 *)

\* C1: a PickPart call on an exhausted Tape (GetPos fails) writes nothing to
\* stdout and leaves every piece of state that later calls read or extend
\* (output so far, cursors, configuration, timings, run phase) as it was, so
\* the calls after it emit what they would have emitted without it.
C1_ExhaustedPickEmitsNothing ==
    [][ (/\ call'.op = "PickPart"
         /\ call'.tape # NULL
         /\ ~GetPos(call'.tape).ok)
        => (out' = out /\ Machine' = Machine) ]_vars

\* An exhausted pick has happened after blocks were already written.
C1_Witness ==
    /\ call.op = "PickPart"
    /\ call.tape # NULL
    /\ call.blocks = 0
    /\ cursor[call.tape] >= TapeDef(call.tape).count
    /\ PickBlocksOf(call.tape) # {}
    /\ Len(err) >= 2

(* C2 *)

\* C2: a PickPart call appends at most one emission and only a pick block;
\* a call that appends one advances the cursor of its Tape by exactly one
\* and no other; a call without a Tape appends nothing and advances nothing;
\* and at all times the number of pick blocks written for a Tape equals the
\* number of advances of its cursor.
C2_OnePickBlockPerAdvance ==
    /\ [](\A t \in Tapes : Cardinality(PickBlocksOf(t)) = cursor[t])
    /\ [][ call'.op = "PickPart" =>
            /\ Len(NewOut) <= 1
            /\ \A i \in DOMAIN NewOut : NewOut[i].tmpl = "gcode_pick"
            /\ (Len(NewOut) = 1 =>
                    /\ call'.tape # NULL
                    /\ cursor' = [cursor EXCEPT ![call'.tape] = @ + 1])
            /\ (Len(NewOut) = 0 => cursor' = cursor)
            /\ (call'.tape = NULL => out' = out /\ cursor' = cursor) ]_vars

\* A successful pick: one block written and the Tape's cursor advanced.
C2_Witness ==
    /\ call.op = "PickPart"
    /\ call.tape # NULL
    /\ call.blocks = 1
    /\ Last.tmpl = "gcode_pick"
    /\ cursor[call.tape] = 1

(* C3 *)

\* C3: Init with a NULL configuration returns false and writes nothing to
\* stdout, neither the run comment nor any line of the setup block.
C3_InitWithoutConfigEmitsNothing ==
    [][ (call'.op = "Init" /\ call'.config = NULL)
        => (call'.ret = FALSE /\ out' = out) ]_vars

\* Init has been called with a NULL configuration.
C3_Witness ==
    /\ call.op = "Init"
    /\ call.config = NULL
    /\ config_ = NULL
    /\ phase = "aborted"

(* C4 *)

\* C4: the rotation of every place block is the angle factor times the
\* relative placement angle (part.angle - tape.angle + 360) mod 360, a value
\* in [0, 360), whatever the part and tape angles are.
C4_PlaceAngleInRange ==
    (call.op = "PlacePart" /\ call.tape # NULL) =>
        /\ Degrees(PlaceAngle(call.part, call.tape)) \in 0 .. 359
        /\ Last.lines[3].args[5] =
              Thousandths(AngleScaled(IntVal(Normalize(
                  PartDef(call.part).angle - angle(call.tape) + 360))))

(* C5 *)

\* C5: the rotation of every pick block is the angle factor times the tape
\* angle normalized into [0, 360), also for negative tape angles and for
\* tape angles of 360 and more.
C5_PickupAngleNormalized ==
    (call.op = "PickPart" /\ call.blocks = 1) =>
        /\ Degrees(PickupAngle(call.tape)) \in 0 .. 359
        /\ Last.lines[3].args[5] =
              Thousandths(AngleScaled(IntVal(Normalize(angle(call.tape)))))

(* C6 *)

\* Field i of line l of an emission is at least field j of line m (the
\* values handed to printf, to the thousandth).
AtLeast(e, l, i, m, j) == e.lines[l].args[i] >= e.lines[m].args[j]

\* C6: in every block on stdout the travel or clearance height is at least
\* the descend height of that block: in a pick block, when the board
\* thickness is >= 0, the approach Z and the ascend Z are at least the
\* descend Z; in a place block the travel height (approach and ascend) is at
\* least the descend Z; in a dispense, the hover Z of the move block and the
\* separation Z are at least the dispense Z.
C6_TravelAboveDescend ==
    \A i \in DOMAIN out :
        LET e == out[i]
        IN  /\ (e.tmpl = "gcode_pick" /\ cfg.board.top >= cfg.bed_level) =>
                  /\ AtLeast(e, 3, 4, 4, 1)
                  /\ AtLeast(e, 7, 1, 4, 1)
            /\ e.tmpl = "gcode_place" =>
                  /\ AtLeast(e, 3, 4, 4, 1)
                  /\ AtLeast(e, 11, 1, 4, 1)
            /\ e.tmpl = "gcode_dispense_paste" =>
                  /\ i > 1
                  /\ out[i - 1].tmpl = "gcode_dispense_move"
                  /\ out[i - 1].lines[3].args[3] >= e.lines[1].args[1]
                  /\ AtLeast(e, 5, 1, 1, 1)

\* The example of the claim: a pick from a tape of height 5 with board top 6
\* and bed level 5 descends to 5 and ascends to the travel height 16.
C6_Witness ==
    /\ call.op = "PickPart"
    /\ call.blocks = 1
    /\ height(call.tape) = 5 * Milli
    /\ cfg.board.top = 6 * Milli
    /\ cfg.bed_level = 5 * Milli
    /\ Last.lines[4].args[1] = 5 * Milli
    /\ Last.lines[7].args[1] = 16 * Milli

(* C7 *)

\* The heights Init takes the maximum of.
ClearanceCandidates ==
    {cfg.board.top} \cup
        { height(cfg.tape_for_component[k]) : k \in DOMAIN cfg.tape_for_component }

\* C7: a successful Init appends the run comment line and then exactly one
\* setup block; the Z of the block's move out of the way is 10 above the
\* largest of board.top and the heights of the registered tapes, hence at
\* least every one of them, and board.top + 10 when no tape is registered.
C7_InitEmitsSetupWithClearance ==
    [][ (call'.op = "Init" /\ call'.config # NULL) =>
          /\ call'.ret = TRUE
          /\ Len(NewOut) = 2
          /\ NewOut[1].tmpl = "comment"
          /\ Len(NewOut[1].lines) = 1
          /\ NewOut[1].lines[1].cmd = ";"
          /\ NewOut[1].lines[1].name \in Comments
          /\ NewOut[2].tmpl = "gcode_preamble"
          /\ LET z == NewOut[2].lines[Len(NewOut[2].lines)].args[1] - 10 * Milli
             IN  /\ z \in ClearanceCandidates
                 /\ \A h \in ClearanceCandidates : z >= h
                 /\ (DOMAIN cfg.tape_for_component = {} => z = cfg.board.top)
        ]_vars

\* Init has succeeded with a registered tape higher than the board top.
C7_Witness ==
    /\ call.op = "Init"
    /\ call.ret = TRUE
    /\ Len(out) = 2
    /\ \E k \in DOMAIN cfg.tape_for_component :
          /\ height(cfg.tape_for_component[k]) > cfg.board.top
          /\ out[2].lines[10].args[1]
               = height(cfg.tape_for_component[k]) + 10 * Milli

(* C8 *)

\* C8: every Finish call appends exactly one block, the shutdown block,
\* whose commands are exactly home X/Y and then stop the motors, whatever
\* was called before and whether or not a configuration is stored; it
\* leaves the tape cursors and the configuration alone.
C8_FinishEmitsFixedBlock ==
    [][ call'.op = "Finish" =>
          /\ Len(NewOut) = 1
          /\ NewOut[1].tmpl = "gcode_finish"
          /\ Commands(NewOut[1].lines) = <<"G28 X0 Y0", "M84">>
          /\ \A i \in DOMAIN NewOut[1].lines : NewOut[1].lines[i].args = <<>>
          /\ cursor' = cursor
          /\ cfg' = cfg
          /\ config_' = config_ ]_vars

\* Finish has been called after a pick was written and a pick was skipped.
C8_Witness ==
    /\ call.op = "Finish"
    /\ Last.tmpl = "gcode_finish"
    /\ \E t \in Tapes : PickBlocksOf(t) # {}
    /\ Len(err) >= 2

(* C9 *)

\* C9: Init, PlacePart, Dispense and Finish leave every tape cursor and the
\* configuration object unchanged (Init changes only the stored reference);
\* PickPart changes no cursor but that of its own Tape and changes neither
\* the configuration nor the stored reference; no step makes a cursor
\* smaller.
C9_OnlyPickMovesItsCursor ==
    [][ /\ cfg' = cfg
        /\ init_ms_' = init_ms_
        /\ area_ms_' = area_ms_
        /\ (call'.op # "Init" => config_' = config_)
        /\ (call'.op # "PickPart" => cursor' = cursor)
        /\ (call'.op = "PickPart" =>
               \A t \in Tapes : t # call'.tape => cursor'[t] = cursor[t])
        /\ \A t \in Tapes : cursor'[t] >= cursor[t] ]_vars

\* A place was done after picks had advanced cursors, which stay advanced.
C9_Witness ==
    /\ call.op = "PlacePart"
    /\ call.blocks = 1
    /\ cursor[call.tape] = 1
    /\ \E t \in Tapes : t # call.tape /\ cursor[t] = 0

(* C10 *)

\* C10: a PlacePart call with a Tape appends exactly one place block headed
\* by the part's name, whatever the Tape's cursor is and without moving it
\* or writing a diagnostic.
C10_PlaceIgnoresTapeState ==
    [][ (call'.op = "PlacePart" /\ call'.tape # NULL) =>
          /\ Len(NewOut) = 1
          /\ NewOut[1].tmpl = "gcode_place"
          /\ NewOut[1].lines[2].name = print_name(call'.part)
          /\ cursor' = cursor
          /\ err' = err ]_vars

\* A part whose pick was skipped for exhaustion has been placed: stdout holds
\* a place block for it and no pick block.
C10_Witness ==
    /\ call.op = "PlacePart"
    /\ call.blocks = 1
    /\ cursor[call.tape] >= TapeDef(call.tape).count
    /\ err[Len(err)] = "We are out of components for "
                          \o PartDef(call.part).footprint \o " "
                          \o PartDef(call.part).value
    /\ BlocksNamed("gcode_place", print_name(call.part)) # {}
    /\ BlocksNamed("gcode_pick", print_name(call.part)) = {}

====
